---- MODULE Spec2Model ----
(***************************************************************************)
(* Model of the request/session layer of the CRM Platform Python SDK      *)
(* (packages/crm-sdk-python/src/crm_sdk/client.py, exceptions.py).        *)
(*                                                                         *)
(* One CRMClient instance is shared by the callers in Threads.  Every     *)
(* caller runs one operation at a time; an operation is cut into steps at *)
(* the points where it blocks on the transport or touches one field of    *)
(* the shared session.  Spec lets one operation run at a time (the        *)
(* sequential use the client is written for); SpecConc lets the callers   *)
(* interleave.                                                             *)
(*                                                                         *)
(* Optional values: None is <<>>, a present value v is <<v>>.             *)
(* A JSON expires_in is <<>> (absent), <<"int", n>> or <<"str">> (a value *)
(* timedelta(seconds=...) rejects: a string or null).                     *)
(***************************************************************************)
EXTENDS Integers, Sequences, FiniteSets, TLC

\* ------------------------------------------------------------------ bounds
MaxTicks == 1
MaxOps == 3

\* --------------------------------------------------------------- constants
RefreshMarginSeconds == 300
DefaultExpiresIn == 3600

\* The callers that share the client.
Threads == {"t1", "t2"}
TickDeltas == {1, 3300}

None == <<>>
Some(v) == <<v>>
IsNone(x) == Len(x) = 0

\* Python truthiness of an Optional[str]: None and "" are falsy.
Truthy(x) == Len(x) = 1 /\ x[1] # ""

\* ------------------------------------------------------------- error kinds
TaxonomyKinds ==
  {"Authentication", "Authorization", "NotFound", "Validation", "Conflict",
   "RateLimit", "Server", "Network", "Timeout", "Generic"}

\* Exceptions of other libraries that the client lets through unwrapped.
ForeignKinds ==
  {"httpx.TimeoutException", "httpx.RequestError", "JSONDecodeError",
   "KeyError", "TypeError", "pydantic.ValidationError"}

\* ------------------------------------------------------- server responses
Statuses == {200, 201, 204, 302, 400, 401, 403, 404, 409, 418, 429, 500, 503}

ExpiresInValues == {None, <<"str">>, <<"int", 300>>, <<"int", 301>>}
AccessTokens == {None, Some("a1"), Some("a2")}
RefreshTokens == {None, Some(""), Some("r1")}

\* A body that is not a JSON object has json = FALSE.
NonJson ==
  [json |-> FALSE, access_token |-> None, refresh_token |-> None,
   expires_in |-> None]

\* Bodies of POST /auth/login, as far as login reads them itself.
LoginBodies ==
  {NonJson} \cup
  [json : {TRUE}, access_token : AccessTokens, refresh_token : RefreshTokens,
   expires_in : ExpiresInValues]

\* Bodies of POST /auth/refresh.
RefreshBodies ==
  {NonJson} \cup
  [json : {TRUE}, access_token : AccessTokens, refresh_token : {None},
   expires_in : ExpiresInValues]

\* The bodies the interleaved runs draw from: complete ones.
ConcLoginBodies ==
  [json : {TRUE}, access_token : {Some("a1")}, refresh_token : {Some("r1")},
   expires_in : {<<"int", 300>>, <<"int", 301>>}]

ConcRefreshBodies ==
  [json : {TRUE}, access_token : {Some("a2")}, refresh_token : {None},
   expires_in : {<<"int", 300>>, <<"int", 301>>}]

\* Bodies of every other call: only whether they decode matters here.
PlainBodies ==
  {NonJson, [NonJson EXCEPT !.json = TRUE]}

\* A server that may answer anything, and the one of the interleaved runs.
AnyServer ==
  [statuses |-> Statuses, refresh |-> RefreshBodies, login |-> LoginBodies,
   rest |-> BOOLEAN, plain |-> PlainBodies]

ConcServer ==
  [statuses |-> {200, 401, 503}, refresh |-> ConcRefreshBodies,
   login |-> ConcLoginBodies, rest |-> BOOLEAN, plain |-> PlainBodies]

\* data.get("expires_in", 0): a token without a stated lifetime expires at once.
ExpiresInOrDefaultZero(body) ==
  IF IsNone(body.expires_in) THEN <<"int", 0>> ELSE body.expires_in

\* data.get("expires_in", 3600)
ExpiresInOrDefault(body) ==
  IF IsNone(body.expires_in) THEN <<"int", DefaultExpiresIn>> ELSE body.expires_in

\* timedelta(seconds=x) raises TypeError unless x is a number.
TimedeltaOk(x) == x[1] = "int"

\* ------------------------------------------------------------------- state
VARIABLES
  auto_refresh,       \* CRMClient.auto_refresh
  access_token,       \* CRMClient._access_token
  refresh_token,      \* CRMClient._refresh_token
  token_expires_at,   \* CRMClient._token_expires_at
  now,                \* the clock read by datetime.now(), in seconds
  ticks,              \* how often the clock has advanced
  pc,                 \* per caller: position in its operation
  op,                 \* per caller: the operation it runs
  result,             \* per caller: "none", "ok" or the kind of the exception
  data,               \* per caller: body of the login response held in `data`
  rdata,              \* per caller: body of the refresh response held in `data`
  pre,                \* credential fields when the sequential caller's operation began
  needed,             \* per caller: what _should_refresh_token() returned
  refreshResult,      \* per caller: outcome of its _refresh_access_token()
  refreshCalls,       \* per caller: POST /auth/refresh calls it issued
  sent,               \* per caller: times its own request went to the transport
  setAt,              \* per caller: clock value it last added an expires_in to
  rstatus,            \* per caller: status of the refresh response (0: none)
  seenExpiry,         \* per caller: the expiry its refresh check read
  respStatus,         \* per caller: status of the response to its request (0: none)
  base_url,           \* CRMClient.base_url
  api_key,            \* CRMClient.api_key
  tenant_id,          \* CRMClient.tenant_id
  timeout,            \* CRMClient.timeout
  phase,              \* "constructed", or how the last login or logout to end ended
  last,               \* the last completed operation, if a login that returned
  started,            \* operations begun by interleaving callers
  call,               \* a function of the SDK applied on its own: name and arguments
  ret                 \* what that application produced

session == <<access_token, refresh_token, token_expires_at>>
clock == <<now, ticks>>
locals == <<pc, op, result, data, rdata, pre, needed, refreshResult,
            refreshCalls, sent, setAt, rstatus, seenExpiry, respStatus>>
config == <<base_url, api_key, tenant_id, timeout>>
pure == <<call, ret>>
machine == <<auto_refresh, config, session, clock, locals, last, started, phase>>
vars == <<machine, pure>>

\* get stands for get, post and put, whose code is the same: request, then
\* response.json(); delete discards the response.
Methods == {"get", "delete"}
Ops == Methods \cup {"login", "logout", "refresh"}

\* Operations that go through CRMClient.request.
Dispatching == Methods \cup {"login", "logout"}

\* ---------------------------------------------------------- pure functions

\* _should_refresh_token with the margin read as hours, not minutes.
ShouldRefreshTokenHours(ar, rt, exp, t) ==
  IF ~ar \/ ~Truthy(rt) THEN FALSE
  ELSE IF IsNone(exp) THEN FALSE
  ELSE t >= exp[1] - 60 * RefreshMarginSeconds

\* _should_refresh_token with > for >=.
ShouldRefreshTokenStrict(ar, rt, exp, t) ==
  IF ~ar \/ ~Truthy(rt) THEN FALSE
  ELSE IF IsNone(exp) THEN FALSE
  ELSE t > exp[1] - RefreshMarginSeconds

\* CRMClient._should_refresh_token, with the fields and the clock it reads.
ShouldRefreshToken(ar, rt, exp, t) ==
  IF ~ar \/ ~Truthy(rt) THEN FALSE
  ELSE IF IsNone(exp) THEN FALSE
  ELSE t >= exp[1] - RefreshMarginSeconds

\* raise_for_status with the server branch taken for status 500 alone.
RaiseForStatusKindOnly500(status) ==
  IF status = 400 THEN "Validation"
  ELSE IF status = 401 THEN "Authentication"
  ELSE IF status = 403 THEN "Authorization"
  ELSE IF status = 404 THEN "NotFound"
  ELSE IF status = 409 THEN "Conflict"
  ELSE IF status = 429 THEN "RateLimit"
  ELSE IF status = 500 THEN "Server"
  ELSE "Generic"

\* raise_for_status: the class of the exception raised for a status >= 400.
RaiseForStatusKind(status) ==
  IF status = 400 THEN "Validation"
  ELSE IF status = 401 THEN "Authentication"
  ELSE IF status = 403 THEN "Authorization"
  ELSE IF status = 404 THEN "NotFound"
  ELSE IF status = 409 THEN "Conflict"
  ELSE IF status = 429 THEN "RateLimit"
  ELSE IF status >= 500 THEN "Server"
  ELSE "Generic"

\* LoginResponse(**data): access_token, refresh_token, expires_in and user
\* are required fields of the pydantic model; restOk says whether the fields
\* login does not read itself (user, token_type) validate.
LoginResponseValid(body, restOk) ==
  /\ ~IsNone(body.access_token)
  /\ ~IsNone(body.refresh_token)
  /\ ~IsNone(body.expires_in)
  /\ restOk

\* Python truthiness of an Optional[int]: None and 0 are falsy.
TruthyInt(x) == Len(x) = 1 /\ x[1] # 0

\* `x or d` taken as d whatever x is: the code of the body is dropped.
OrDefaultIgnoring(x, d) == d

\* `x or d` for an Optional[str] x.
OrDefault(x, d) == IF Truthy(x) THEN x[1] ELSE d

\* A response whose body is not a JSON object: text is the raw body.
Undecodable(text) ==
  [json |-> FALSE, text |-> text, error |-> None, message |-> None,
   code |-> None, retry_after |-> None, errors |-> None]

\* ErrorData that keeps the message fields only.
ErrorDataMessageOnly(resp) ==
  IF resp.json
    THEN [error |-> resp.error, message |-> resp.message, code |-> resp.code,
          retry_after |-> None, errors |-> None]
    ELSE [error |-> Some(resp.text), message |-> None, code |-> None,
          retry_after |-> None, errors |-> None]

\* ErrorData that takes a body that does not decode for an empty object.
ErrorDataDiscardingText(resp) ==
  IF resp.json
    THEN [error |-> resp.error, message |-> resp.message, code |-> resp.code,
          retry_after |-> resp.retry_after, errors |-> resp.errors]
    ELSE [error |-> None, message |-> None, code |-> None,
          retry_after |-> None, errors |-> None]

\* CRMClient.request, lines 196-199: the decoded body of an error response,
\* or {"error": response.text} when response.json() raises.
ErrorData(resp) ==
  IF resp.json
    THEN [error |-> resp.error, message |-> resp.message, code |-> resp.code,
          retry_after |-> resp.retry_after, errors |-> resp.errors]
    ELSE [error |-> Some(resp.text), message |-> None, code |-> None,
          retry_after |-> None, errors |-> None]

\* raise_for_status, line 223:
\* response_data.get("error", response_data.get("message", "Unknown error"))
ErrorMessage(body) ==
  IF ~IsNone(body.error) THEN body.error[1]
  ELSE IF ~IsNone(body.message) THEN body.message[1]
  ELSE "Unknown error"

\* raise_for_status, lines 221-275, with the constructors of the exception
\* classes (lines 8-174): the exception raised for a status and a decoded
\* body, as the record of its class and fields.
RaiseForStatus(status, body) ==
  LET kind == RaiseForStatusKind(status)
      code == body.code
  IN [kind |-> kind,
      message |-> ErrorMessage(body),
      status_code |->
        CASE kind = "Validation" -> 400
          [] kind = "Authentication" -> 401
          [] kind = "Authorization" -> 403
          [] kind = "NotFound" -> 404
          [] kind = "Conflict" -> 409
          [] kind = "RateLimit" -> 429
          [] OTHER -> status,
      error_code |->
        CASE kind = "Validation" -> Some("VALIDATION_ERROR")
          [] kind = "Authentication" -> Some(OrDefault(code, "AUTHENTICATION_ERROR"))
          [] kind = "Authorization" -> Some(OrDefault(code, "AUTHORIZATION_ERROR"))
          [] kind = "NotFound" -> Some("NOT_FOUND")
          [] kind = "Conflict" -> Some(OrDefault(code, "CONFLICT"))
          [] kind = "RateLimit" -> Some("RATE_LIMIT_EXCEEDED")
          [] kind = "Server" -> Some(OrDefault(code, "SERVER_ERROR"))
          [] OTHER -> code,
      retry_after |-> IF kind = "RateLimit" THEN body.retry_after ELSE None,
      details_retry_after |->
        IF kind = "RateLimit" /\ TruthyInt(body.retry_after)
          THEN body.retry_after ELSE None,
      validation_errors |->
        IF kind = "Validation" /\ Truthy(body.errors) THEN body.errors ELSE None]

\* CRMClient.request, lines 195-200: what a response of status >= 400 is
\* raised as.
RequestError(status, resp) == RaiseForStatus(status, ErrorData(resp))

\* CRMClient._get_headers with both credential headers tested by `if`.
GetHeadersBoth(key, token, tenant) ==
  [ContentType |-> "application/json",
   Accept |-> "application/json",
   XAPIKey |-> IF Truthy(key) THEN key ELSE None,
   Authorization |-> IF Truthy(token) THEN Some(<<"Bearer", token[1]>>) ELSE None,
   XTenantID |-> IF Truthy(tenant) THEN tenant ELSE None]

\* CRMClient._get_headers, lines 109-124: the header map of a request; a
\* header that is not in the map is None, f"Bearer {token}" is the pair
\* <<"Bearer", token>>.  `if self.api_key:`, `elif self._access_token:` and
\* `if self.tenant_id:` test truthiness, so "" counts as absent.
GetHeaders(key, token, tenant) ==
  [ContentType |-> "application/json",
   Accept |-> "application/json",
   XAPIKey |-> IF Truthy(key) THEN key ELSE None,
   Authorization |-> IF ~Truthy(key) /\ Truthy(token)
                       THEN Some(<<"Bearer", token[1]>>)
                       ELSE None,
   XTenantID |-> IF Truthy(tenant) THEN tenant ELSE None]

\* Classes of exception the transport call raises, all of them subclasses of
\* httpx.RequestError; the first four are subclasses of httpx.TimeoutException.
TransportExceptions ==
  {"ConnectTimeout", "ReadTimeout", "WriteTimeout", "PoolTimeout",
   "ConnectError", "ReadError", "RemoteProtocolError", "TooManyRedirects"}

\* isinstance(e, httpx.TimeoutException)
IsTimeoutException(exc) ==
  exc \in {"ConnectTimeout", "ReadTimeout", "WriteTimeout", "PoolTimeout"}

\* isinstance(e, httpx.RequestError)
IsRequestError(exc) == exc \in TransportExceptions

\* CRMClient.__init__, line 58: the default of the timeout argument.
DefaultTimeout == 30

\* exceptions.TimeoutError, lines 199-218, as request line 191 raises it.
\* str(e) is the pair <<"str", e>>; details holds the timeout only when it
\* is truthy, the attribute always.
SDKTimeoutError(exc, secs) ==
  [kind |-> "Timeout",
   message |-> <<"Request timed out: ", <<"str", exc>>>>,
   status_code |-> None,
   error_code |-> "TIMEOUT",
   timeout |-> Some(secs),
   details_timeout |-> IF secs # 0 THEN Some(secs) ELSE None,
   original_error |-> None,
   details_original_error |-> None]

\* exceptions.NetworkError, lines 177-196, as request line 193 raises it.
NetworkError(exc) ==
  [kind |-> "Network",
   message |-> <<"Network error: ", <<"str", exc>>>>,
   status_code |-> None,
   error_code |-> "NETWORK_ERROR",
   timeout |-> None,
   details_timeout |-> None,
   original_error |-> Some(exc),
   details_original_error |-> Some(<<"str", exc>>)]

\* The except clauses of request with httpx.RequestError tested first.
TransportErrorNetworkFirst(exc, secs) ==
  IF IsRequestError(exc) THEN NetworkError(exc)
  ELSE SDKTimeoutError(exc, secs)

\* CRMClient.request, lines 190-193: the except clauses, in their order,
\* applied to the exception exc of the transport call.
TransportError(exc, secs) ==
  IF IsTimeoutException(exc) THEN SDKTimeoutError(exc, secs)
  ELSE NetworkError(exc)

\* response.json() with the access token of the session stamped on the result.
JsonStamped(body) == [json |-> body.json, payload |-> <<body, access_token>>]

\* response.json(), lines 207, 212 and 217: the decoded body, which is what
\* get, post and put return.
Json(body) == body

\* ------------------------------------------------------------------- Init
Constructed ==
  /\ auto_refresh \in BOOLEAN
  /\ access_token \in {None, Some("a0")}
  /\ refresh_token = None
  /\ token_expires_at = None
  /\ now = 0
  /\ ticks = 0
  /\ pc = [t \in Threads |-> "idle"]
  /\ op = [t \in Threads |-> "get"]
  /\ result = [t \in Threads |-> "none"]
  /\ data = [t \in Threads |-> NonJson]
  /\ rdata = [t \in Threads |-> NonJson]
  /\ pre = [t \in Threads |-> <<None, None, None>>]
  /\ needed = [t \in Threads |-> FALSE]
  /\ refreshResult = [t \in Threads |-> "none"]
  /\ refreshCalls = [t \in Threads |-> 0]
  /\ sent = [t \in Threads |-> 0]
  /\ setAt = [t \in Threads |-> 0]
  /\ rstatus = [t \in Threads |-> 0]
  /\ seenExpiry = [t \in Threads |-> None]
  /\ respStatus = [t \in Threads |-> 0]
  /\ base_url = "https://api.crmplatform.my"
  /\ api_key \in {None, Some("k1")}
  /\ tenant_id = Some("tenantA")
  /\ timeout = DefaultTimeout
  /\ phase = "constructed"
  /\ last = None
  /\ started = 0

\* The state after construction of a client that authenticates with tokens
\* (no API key); no function is applied on its own.
Init ==
  /\ Constructed
  /\ api_key = None
  /\ call = None
  /\ ret = None

\* ---------------------------------------------------------- control flow

\* Raised without logout's try/finally: the exception leaves at once.
RaisedSkippingCleanup(t, kind) ==
  /\ result' = [result EXCEPT ![t] = kind]
  /\ pc' = [pc EXCEPT ![t] = "done"]

\* Raised with a retry: a request answered 401 goes through a refresh and is
\* sent once more.
RaisedRetrying(t, kind) ==
  IF pc[t] = "req_wait" /\ kind = "Authentication" /\ sent[t] < 2
    THEN /\ pc' = [pc EXCEPT ![t] = "refresh_entry"]
         /\ UNCHANGED result
    ELSE /\ result' = [result EXCEPT ![t] = kind]
         /\ pc' = [pc EXCEPT ![t] =
                     IF op[t] = "logout" THEN "logout_clear_access" ELSE "done"]

\* An exception of class kind leaves the operation of caller t.  Inside
\* logout the try/finally runs the cleanup first and re-raises afterwards.
Raised(t, kind) ==
  /\ result' = [result EXCEPT ![t] = kind]
  /\ pc' = [pc EXCEPT ![t] =
              IF op[t] = "logout" THEN "logout_clear_access" ELSE "done"]

\* The wrapper (get/post/delete, and through post: logout) returns normally.
Returned(t) ==
  /\ result' = [result EXCEPT ![t] = "ok"]
  /\ pc' = [pc EXCEPT ![t] =
              IF op[t] = "logout" THEN "logout_clear_access" ELSE "done"]

\* Caller t enters operation o.
Start(t, o) ==
  /\ pc[t] = "idle"
  /\ op' = [op EXCEPT ![t] = o]
  /\ pc' = [pc EXCEPT ![t] = IF o = "refresh" THEN "refresh_entry" ELSE "req_check"]
  /\ result' = [result EXCEPT ![t] = "none"]
  /\ data' = [data EXCEPT ![t] = NonJson]
  /\ rdata' = [rdata EXCEPT ![t] = NonJson]
  /\ needed' = [needed EXCEPT ![t] = FALSE]
  /\ refreshResult' = [refreshResult EXCEPT ![t] = "none"]
  /\ refreshCalls' = [refreshCalls EXCEPT ![t] = 0]
  /\ sent' = [sent EXCEPT ![t] = 0]
  /\ setAt' = [setAt EXCEPT ![t] = 0]
  /\ rstatus' = [rstatus EXCEPT ![t] = 0]
  /\ seenExpiry' = [seenExpiry EXCEPT ![t] = None]
  /\ respStatus' = [respStatus EXCEPT ![t] = 0]
  /\ UNCHANGED <<auto_refresh, session, clock, last, config, phase, pure>>

\* Sequential use: the one caller, t1, begins an operation when its last one
\* is over.
StartSeq(t, o) ==
  /\ t = "t1"
  /\ \A u \in Threads : pc[u] = "idle"
  /\ Start(t, o)
  /\ pre' = [pre EXCEPT ![t] = session]
  /\ UNCHANGED started

\* Shared use: callers begin operations whenever they are free, MaxOps in all.
StartConc(t, o) ==
  /\ started < MaxOps
  /\ Start(t, o)
  /\ started' = started + 1
  /\ UNCHANGED pre

\* CRMClient.request, line 178: the refresh check.
ReqCheck(t) ==
  /\ pc[t] = "req_check"
  /\ LET r == ShouldRefreshToken(auto_refresh, refresh_token, token_expires_at, now)
     IN /\ needed' = [needed EXCEPT ![t] = r]
        /\ seenExpiry' = [seenExpiry EXCEPT ![t] = token_expires_at]
        /\ pc' = [pc EXCEPT ![t] = IF r THEN "refresh_entry" ELSE "req_send"]
  /\ UNCHANGED <<config, phase, pure, respStatus, auto_refresh, started, session, clock, op, result, data, rdata, pre,
                 refreshResult, refreshCalls, sent, setAt, rstatus, last>>

\* RefreshFails with request swallowing the failure of its pre-flight refresh
\* and going on to send.
RefreshFailsSwallowed(t, kind) ==
  /\ refreshResult' = [refreshResult EXCEPT ![t] = kind]
  /\ IF op[t] = "refresh"
       THEN Raised(t, kind)
       ELSE pc' = [pc EXCEPT ![t] = "req_send"] /\ UNCHANGED result

\* _refresh_access_token raises an exception of class kind.
RefreshFails(t, kind) ==
  /\ refreshResult' = [refreshResult EXCEPT ![t] = kind]
  /\ Raised(t, kind)

\* _refresh_access_token without its guard: the call is issued with whatever
\* refresh_token the session holds.
RefreshEntryUnguarded(t) ==
  /\ pc[t] = "refresh_entry"
  /\ refreshCalls' = [refreshCalls EXCEPT ![t] = @ + 1]
  /\ pc' = [pc EXCEPT ![t] = "refresh_wait"]
  /\ UNCHANGED <<config, phase, pure, respStatus, auto_refresh, started, session, clock, op, data,
                 rdata, pre, needed, sent, setAt, rstatus, seenExpiry, last,
                 refreshResult, result>>

\* CRMClient._refresh_access_token, lines 137-143: the guard and the call.
RefreshEntry(t) ==
  /\ pc[t] = "refresh_entry"
  /\ IF ~Truthy(refresh_token)
       THEN /\ RefreshFails(t, "Authentication")
            /\ UNCHANGED refreshCalls
       ELSE /\ refreshCalls' = [refreshCalls EXCEPT ![t] = @ + 1]
            /\ pc' = [pc EXCEPT ![t] = "refresh_wait"]
            /\ UNCHANGED <<refreshResult, result>>
  /\ UNCHANGED <<config, phase, pure, respStatus, auto_refresh, started, session, clock, op, data, rdata, pre, needed,
                 sent, setAt, rstatus, seenExpiry, last>>

\* RefreshStatusOk with request's test (status >= 400 is an error) in its place.
RefreshStatusOkBelow400(status) == status < 400

\* CRMClient._refresh_access_token, line 145: the status that lets it go on.
RefreshStatusOk(status) == status = 200

\* CRMClient._refresh_access_token, lines 140-149: the transport answers (or
\* fails), the status is checked, the body decoded, access_token assigned.
\* srv is what the server may answer with.
RefreshResponse(t, srv) ==
  /\ pc[t] = "refresh_wait"
  /\ \/ \E kind \in {"httpx.TimeoutException", "httpx.RequestError"} :
          /\ RefreshFails(t, kind)
          /\ UNCHANGED <<access_token, rdata, rstatus>>
     \/ \E status \in srv.statuses, body \in srv.refresh :
          /\ rstatus' = [rstatus EXCEPT ![t] = status]
          /\ IF ~RefreshStatusOk(status)
               THEN RefreshFails(t, "Authentication") /\ UNCHANGED <<access_token, rdata>>
             ELSE IF ~body.json
               THEN RefreshFails(t, "JSONDecodeError") /\ UNCHANGED <<access_token, rdata>>
             ELSE IF IsNone(body.access_token)
               THEN /\ RefreshFails(t, "KeyError")
                    /\ rdata' = [rdata EXCEPT ![t] = body]
                    /\ UNCHANGED access_token
             ELSE /\ access_token' = body.access_token
                  /\ rdata' = [rdata EXCEPT ![t] = body]
                  /\ pc' = [pc EXCEPT ![t] = "refresh_set_expiry"]
                  /\ UNCHANGED <<refreshResult, result>>
  /\ UNCHANGED <<config, phase, pure, respStatus, auto_refresh, started,
                 refresh_token, token_expires_at, clock, op, data,
                 pre, needed, refreshCalls, sent, setAt, seenExpiry, last>>

\* CRMClient._refresh_access_token, line 150, and the return to the caller:
\* AuthService.refresh (lines 305-311) or CRMClient.request (line 181).
RefreshSetExpiry(t) ==
  /\ pc[t] = "refresh_set_expiry"
  /\ LET e == ExpiresInOrDefault(rdata[t])
     IN IF ~TimedeltaOk(e)
          THEN /\ RefreshFails(t, "TypeError")
               /\ UNCHANGED <<token_expires_at, setAt>>
          ELSE /\ token_expires_at' = Some(now + e[2])
               /\ setAt' = [setAt EXCEPT ![t] = now]
               /\ refreshResult' = [refreshResult EXCEPT ![t] = "ok"]
               /\ IF op[t] = "refresh"
                    THEN Returned(t)
                    ELSE pc' = [pc EXCEPT ![t] = "req_send"] /\ UNCHANGED result
  /\ UNCHANGED <<config, phase, pure, respStatus, auto_refresh, started,
                 access_token, refresh_token, clock, op, data,
                 rdata, pre, needed, refreshCalls, sent, rstatus, seenExpiry, last>>

\* ReqSend that forgets the expiry when the request goes out.
ReqSendForgetting(t) ==
  /\ pc[t] = "req_send"
  /\ sent' = [sent EXCEPT ![t] = @ + 1]
  /\ pc' = [pc EXCEPT ![t] = "req_wait"]
  /\ token_expires_at' = None
  /\ UNCHANGED <<config, phase, pure, respStatus, auto_refresh, started,
                 access_token, refresh_token, clock, op, result, data, rdata, pre,
                 needed, refreshResult, refreshCalls, setAt, rstatus, seenExpiry, last>>

\* CRMClient.request, lines 181-189: headers are built from the session and
\* the request is handed to the transport.
ReqSend(t) ==
  /\ pc[t] = "req_send"
  /\ sent' = [sent EXCEPT ![t] = @ + 1]
  /\ pc' = [pc EXCEPT ![t] = "req_wait"]
  /\ UNCHANGED <<config, phase, pure, respStatus, auto_refresh, started, session,
                 clock, op, result, data, rdata, pre,
                 needed, refreshResult, refreshCalls, setAt, rstatus, seenExpiry, last>>

\* ReqResponse with request undoing its pre-flight refresh when the request fails
ReqResponseRollingBack(t, srv) ==
  /\ pc[t] = "req_wait"
  /\ \/ \E exc \in TransportExceptions :
          /\ Raised(t, TransportError(exc, timeout).kind)
          /\ access_token' = pre[t][1]
          /\ refresh_token' = pre[t][2]
          /\ token_expires_at' = pre[t][3]
          /\ UNCHANGED <<data, respStatus>>
     \/ \E status \in srv.statuses,
           body \in IF op[t] = "login" THEN srv.login ELSE srv.plain :
          /\ respStatus' = [respStatus EXCEPT ![t] = status]
          /\ IF status >= 400
               THEN /\ Raised(t, RaiseForStatusKind(status))
                    /\ access_token' = pre[t][1]
                    /\ refresh_token' = pre[t][2]
                    /\ token_expires_at' = pre[t][3]
                    /\ UNCHANGED data
             ELSE IF op[t] = "delete"
               THEN Returned(t) /\ UNCHANGED <<data, session>>
             ELSE IF ~body.json
               THEN Raised(t, "JSONDecodeError") /\ UNCHANGED <<data, session>>
             ELSE IF op[t] = "login"
               THEN /\ data' = [data EXCEPT ![t] = body]
                    /\ pc' = [pc EXCEPT ![t] = "login_set_access"]
                    /\ UNCHANGED <<result, session>>
             ELSE /\ Returned(t)
                  /\ data' = [data EXCEPT ![t] = Json(body)]
                  /\ UNCHANGED session
  /\ UNCHANGED <<config, phase, pure,
                 auto_refresh, started, clock, op, rdata, pre, needed,
                 refreshResult, refreshCalls, sent, setAt, rstatus, seenExpiry, last>>

\* CRMClient.request, lines 190-202, and the wrapper that called it
\* (get/post: lines 206-212, delete: line 221, login: line 250,
\* logout: line 271): the transport fails or answers.  srv is what the
\* server may answer with.
ReqResponse(t, srv) ==
  /\ pc[t] = "req_wait"
  /\ \/ \E exc \in TransportExceptions :
          /\ Raised(t, TransportError(exc, timeout).kind)
          /\ UNCHANGED <<data, respStatus>>
     \/ \E status \in srv.statuses,
           body \in IF op[t] = "login" THEN srv.login ELSE srv.plain :
          /\ respStatus' = [respStatus EXCEPT ![t] = status]
          /\ IF status >= 400
               THEN Raised(t, RaiseForStatusKind(status)) /\ UNCHANGED data
             ELSE IF op[t] = "delete"
               THEN Returned(t) /\ UNCHANGED data
             ELSE IF ~body.json
               THEN Raised(t, "JSONDecodeError") /\ UNCHANGED data
             ELSE IF op[t] = "login"
               THEN /\ data' = [data EXCEPT ![t] = body]
                    /\ pc' = [pc EXCEPT ![t] = "login_set_access"]
                    /\ UNCHANGED result
             ELSE /\ Returned(t)
                  /\ data' = [data EXCEPT ![t] = Json(body)]
  /\ UNCHANGED <<config, phase, pure,
                 auto_refresh, started, session, clock, op, rdata, pre, needed,
                 refreshResult, refreshCalls, sent, setAt, rstatus, seenExpiry, last>>

\* AuthService.login, line 260.
LoginSetAccess(t) ==
  /\ pc[t] = "login_set_access"
  /\ IF IsNone(data[t].access_token)
       THEN Raised(t, "KeyError") /\ UNCHANGED access_token
       ELSE /\ access_token' = data[t].access_token
            /\ pc' = [pc EXCEPT ![t] = "login_set_refresh"]
            /\ UNCHANGED result
  /\ UNCHANGED <<config, phase, pure, respStatus, auto_refresh, started,
                 refresh_token, token_expires_at, clock, op, data,
                 rdata, pre, needed, refreshResult, refreshCalls, sent, setAt, rstatus, seenExpiry,
                 last>>

\* AuthService.login, line 261.
LoginSetRefresh(t) ==
  /\ pc[t] = "login_set_refresh"
  /\ IF IsNone(data[t].refresh_token)
       THEN Raised(t, "KeyError") /\ UNCHANGED refresh_token
       ELSE /\ refresh_token' = data[t].refresh_token
            /\ pc' = [pc EXCEPT ![t] = "login_set_expiry"]
            /\ UNCHANGED result
  /\ UNCHANGED <<config, phase, pure, respStatus, auto_refresh, started,
                 access_token, token_expires_at, clock, op, data,
                 rdata, pre, needed, refreshResult, refreshCalls, sent, setAt, rstatus, seenExpiry,
                 last>>

\* AuthService.login, lines 262-266: the expiry, then LoginResponse(**data).
LoginSetExpiry(t, srv) ==
  /\ pc[t] = "login_set_expiry"
  /\ LET e == ExpiresInOrDefault(data[t])
     IN IF ~TimedeltaOk(e)
          THEN /\ Raised(t, "TypeError")
               /\ UNCHANGED <<token_expires_at, setAt, phase>>
          ELSE /\ token_expires_at' = Some(now + e[2])
               /\ setAt' = [setAt EXCEPT ![t] = now]
               /\ \E restOk \in srv.rest :
                    IF LoginResponseValid(data[t], restOk)
                      THEN Returned(t) /\ phase' = "logged_in"
                      ELSE /\ Raised(t, "pydantic.ValidationError")
                           /\ UNCHANGED phase
  /\ UNCHANGED <<config, pure, respStatus, auto_refresh, started,
                 access_token, refresh_token, clock, op, data,
                 rdata, pre, needed, refreshResult, refreshCalls, sent, rstatus,
                 seenExpiry, last>>

\* AuthService.logout, line 273 (first statement of the finally block).
LogoutClearAccess(t) ==
  /\ pc[t] = "logout_clear_access"
  /\ access_token' = None
  /\ pc' = [pc EXCEPT ![t] = "logout_clear_refresh"]
  /\ UNCHANGED <<config, phase, pure, respStatus, auto_refresh, started,
                 refresh_token, token_expires_at, clock, op,
                 result, data, rdata, pre, needed, refreshResult, refreshCalls,
                 sent, setAt, rstatus, seenExpiry, last>>

\* AuthService.logout, line 274.
LogoutClearRefresh(t) ==
  /\ pc[t] = "logout_clear_refresh"
  /\ refresh_token' = None
  /\ pc' = [pc EXCEPT ![t] = "logout_clear_expiry"]
  /\ UNCHANGED <<config, phase, pure, respStatus, auto_refresh, started,
                 access_token, token_expires_at, clock, op,
                 result, data, rdata, pre, needed, refreshResult, refreshCalls,
                 sent, setAt, rstatus, seenExpiry, last>>

\* AuthService.logout, line 275; the pending exception, if any, is re-raised.
LogoutClearExpiry(t) ==
  /\ pc[t] = "logout_clear_expiry"
  /\ token_expires_at' = None
  /\ pc' = [pc EXCEPT ![t] = "done"]
  /\ phase' = "logged_out"
  /\ UNCHANGED <<config, pure, respStatus, auto_refresh, started,
                 access_token, refresh_token, clock, op,
                 result, data, rdata, pre, needed, refreshResult, refreshCalls,
                 sent, setAt, rstatus, seenExpiry, last>>

\* The caller has its result (or exception) and is free for the next call;
\* the frame of the finished call is gone.
Return(t) ==
  /\ pc[t] = "done"
  /\ pc' = [pc EXCEPT ![t] = "idle"]
  /\ last' = IF op[t] = "login" /\ result[t] = "ok"
               THEN Some([expires_in |-> data[t].expires_in, at |-> setAt[t]])
               ELSE None
  /\ op' = [op EXCEPT ![t] = "get"]
  /\ result' = [result EXCEPT ![t] = "none"]
  /\ data' = [data EXCEPT ![t] = NonJson]
  /\ rdata' = [rdata EXCEPT ![t] = NonJson]
  /\ pre' = [pre EXCEPT ![t] = <<None, None, None>>]
  /\ needed' = [needed EXCEPT ![t] = FALSE]
  /\ refreshResult' = [refreshResult EXCEPT ![t] = "none"]
  /\ refreshCalls' = [refreshCalls EXCEPT ![t] = 0]
  /\ sent' = [sent EXCEPT ![t] = 0]
  /\ setAt' = [setAt EXCEPT ![t] = 0]
  /\ rstatus' = [rstatus EXCEPT ![t] = 0]
  /\ seenExpiry' = [seenExpiry EXCEPT ![t] = None]
  /\ respStatus' = [respStatus EXCEPT ![t] = 0]
  /\ UNCHANGED <<auto_refresh, started, session, clock, config, phase, pure>>

\* Time passes.
Tick ==
  /\ ticks < MaxTicks
  /\ \E d \in TickDeltas : now' = now + d
  /\ ticks' = ticks + 1
  /\ UNCHANGED <<auto_refresh, started, session, locals, last, config, phase, pure>>

\* One step of caller t, against a server whose answers are drawn from srv.
Step(t, srv) ==
  \/ ReqCheck(t)
  \/ RefreshEntry(t)
  \/ RefreshResponse(t, srv)
  \/ RefreshSetExpiry(t)
  \/ ReqSend(t)
  \/ ReqResponse(t, srv)
  \/ LoginSetAccess(t)
  \/ LoginSetRefresh(t)
  \/ LoginSetExpiry(t, srv)
  \/ LogoutClearAccess(t)
  \/ LogoutClearRefresh(t)
  \/ LogoutClearExpiry(t)
  \/ Return(t)

Next ==
  \/ \E t \in Threads, o \in Ops : StartSeq(t, o)
  \/ \E t \in Threads : Step(t, AnyServer)
  \/ Tick

NextConc ==
  \/ \E t \in Threads, o \in Ops : StartConc(t, o)
  \/ \E t \in Threads : Step(t, ConcServer)
  \/ Tick

Spec == Init /\ [][Next]_vars

SpecConc == Init /\ [][NextConc]_vars

\* --------------------------------------- functions applied on their own

\* The function named fn has been applied to the arguments held in call.
Applied(fn) ==
  /\ ~IsNone(ret)
  /\ call.fn = fn

\* Values of a constructor argument of type Optional[str].
ApiKeys == {None, Some(""), Some("k1"), Some("k2")}
TenantIds == {None, Some(""), Some("tenantA"), Some("tenantB")}
HeaderTokens == {None, Some(""), Some("a0"), Some("a1")}

HeaderCalls ==
  [fn : {"_get_headers"}, api_key : ApiKeys, token : HeaderTokens,
   tenant_id : TenantIds]

\* A client constructed with any api_key, access_token and tenant_id.
InitHeaders ==
  /\ Constructed
  /\ call \in HeaderCalls
  /\ ret = None

\* self._get_headers(), as request line 186 calls it.
EvalGetHeaders ==
  /\ call.fn = "_get_headers"
  /\ IsNone(ret)
  /\ ret' = Some(GetHeaders(call.api_key, call.token, call.tenant_id))
  /\ UNCHANGED <<machine, call>>

NextHeaders == EvalGetHeaders

SpecHeaders == InitHeaders /\ [][NextHeaders]_vars

\* Largest status code the error mapping is applied to.
MaxStatus == 520

ErrorStatuses == 400..MaxStatus

\* Error responses: JSON objects with any of the fields raise_for_status
\* reads, and bodies that do not decode (empty, or not JSON).
ErrorResponses ==
  [json : {TRUE}, text : {"{...}"}, error : {None, Some("boom")},
   message : {None, Some("msg")}, code : {None, Some(""), Some("E42")},
   retry_after : {None, Some(0), Some(7)},
   errors : {None, Some(""), Some("errs")}]
  \cup {Undecodable(""), Undecodable("<html>")}

\* Values of the constructor argument timeout.
ClientTimeouts == {0, 5, DefaultTimeout}

\* A response of status >= 400 has arrived, or the transport call has failed.
InitErrors ==
  /\ Constructed
  /\ \/ call \in [fn : {"raise_for_status"}, status : ErrorStatuses,
                  resp : ErrorResponses]
     \/ call \in [fn : {"transport"}, exc : TransportExceptions,
                  timeout : ClientTimeouts]
  /\ ret = None

\* CRMClient.request, lines 195-200.
EvalRequestError ==
  /\ call.fn = "raise_for_status"
  /\ IsNone(ret)
  /\ ret' = Some(RequestError(call.status, call.resp))
  /\ UNCHANGED <<machine, call>>

\* CRMClient.request, lines 190-193.
EvalTransportError ==
  /\ call.fn = "transport"
  /\ IsNone(ret)
  /\ ret' = Some(TransportError(call.exc, call.timeout))
  /\ UNCHANGED <<machine, call>>

NextErrors ==
  \/ EvalRequestError
  \/ EvalTransportError

SpecErrors == InitErrors /\ [][NextErrors]_vars

\* UserService.list, line 319 (and every other list): page: int = 1.
DefaultPage == 1

\* UserService.list, line 320 (and every other list): per_page: int = 20.
DefaultPerPage == 20

\* data.get("total_pages", 1)
DefaultTotalPages == 1

\* data.get("total", 0)
DefaultTotal == 0

\* A JSON value at an integer field of the reply: absent (None), an integer,
\* or something pydantic does not take for an int, such as "many".
IsInt(x) == Len(x) = 2 /\ x[1] = "int"

\* data.get(key, default) for a key whose value is x when present.
GetOr(x, default) == IF IsNone(x) THEN <<"int", default>> ELSE x

\* The list built from the server's page and per_page where it sends them.
ListEchoing(page, per_page, reply) ==
  LET total == GetOr(reply.total, DefaultTotal)
      total_pages == GetOr(reply.total_pages, DefaultTotalPages)
      p == IF IsInt(reply.page) THEN reply.page[2] ELSE page
      pp == IF IsInt(reply.per_page) THEN reply.per_page[2] ELSE per_page
  IN IF ~reply.itemsOk \/ ~IsInt(total) \/ ~IsInt(total_pages)
       THEN [kind |-> "pydantic.ValidationError"]
       ELSE [kind |-> "PaginatedResponse", page |-> p, per_page |-> pp,
             total |-> total[2], total_pages |-> total_pages[2],
             has_next |-> p < total_pages[2], has_prev |-> p > 1]

\* The list whose result takes has_next for page <= total_pages.
ListHasNextInclusive(page, per_page, reply) ==
  LET total == GetOr(reply.total, DefaultTotal)
      total_pages == GetOr(reply.total_pages, DefaultTotalPages)
  IN IF ~reply.itemsOk \/ ~IsInt(total) \/ ~IsInt(total_pages)
       THEN [kind |-> "pydantic.ValidationError"]
       ELSE [kind |-> "PaginatedResponse", page |-> page, per_page |-> per_page,
             total |-> total[2], total_pages |-> total_pages[2],
             has_next |-> page <= total_pages[2], has_prev |-> page > 1]

\* UserService.list (client.py 317-335), TenantService.list (363-372),
\* CustomerService.list (388-409) and models.PaginatedResponse (431-447),
\* from the decoded reply on: the paginated result, or the validation error
\* of pydantic when an entity, total or total_pages does not validate.
List(page, per_page, reply) ==
  LET total == GetOr(reply.total, DefaultTotal)
      total_pages == GetOr(reply.total_pages, DefaultTotalPages)
  IN IF ~reply.itemsOk \/ ~IsInt(total) \/ ~IsInt(total_pages)
       THEN [kind |-> "pydantic.ValidationError"]
       ELSE [kind |-> "PaginatedResponse", page |-> page, per_page |-> per_page,
             total |-> total[2], total_pages |-> total_pages[2],
             has_next |-> page < total_pages[2], has_prev |-> page > 1]

\* What a caller may pass for page and per_page; None: the argument is left out.
PageArgs == {None, Some(-1), Some(0), Some(1), Some(2)}
PerPageArgs == {None, Some(0), Some(10), Some(50)}

\* Replies to a list request: JSON objects whose total, total_pages, page
\* and per_page are absent, integers or no integers, and whose entities
\* validate or not.
ListReplies ==
  [itemsOk : BOOLEAN,
   total : {None, <<"int", 0>>, <<"int", 18>>, <<"str">>},
   total_pages : {None, <<"int", -1>>, <<"int", 0>>, <<"int", 1>>, <<"int", 2>>,
                  <<"str">>},
   page : {None, <<"int", 7>>},
   per_page : {None, <<"int", 25>>}]

\* A list request has been answered with a JSON object.
InitList ==
  /\ Constructed
  /\ call \in [fn : {"list"}, page : PageArgs, per_page : PerPageArgs,
               reply : ListReplies]
  /\ ret = None

\* The return statement of list, with the defaults of its parameters.
EvalList ==
  /\ call.fn = "list"
  /\ IsNone(ret)
  /\ ret' = Some(List(IF IsNone(call.page) THEN DefaultPage ELSE call.page[1],
                      IF IsNone(call.per_page) THEN DefaultPerPage
                      ELSE call.per_page[1],
                      call.reply))
  /\ UNCHANGED <<machine, call>>

NextList == EvalList

SpecList == InitList /\ [][NextList]_vars

\* Replies to the GET that is repeated: JSON documents.
GetReplies == [json : {TRUE}, payload : {"doc1", "doc2"}]

\* A server that answers the repeated GET with the reply held in call
\* whenever it answers 200, and the other calls with complete bodies.
RepeatServer ==
  [statuses |-> {200, 401}, refresh |-> ConcRefreshBodies,
   login |-> ConcLoginBodies, rest |-> {TRUE}, plain |-> {call.reply}]

\* A client as constructed, and the reply of the server to the GET.
InitRepeat ==
  /\ Constructed
  /\ api_key = None
  /\ call \in [fn : {"get"}, reply : GetReplies]
  /\ ret = None

\* The caller keeps what its get returned, the first time it looks:
\* first = client.get(path, params).
Observe(t) ==
  /\ pc[t] = "done"
  /\ op[t] = "get"
  /\ result[t] = "ok"
  /\ IsNone(ret)
  /\ ret' = Some([output |-> data[t], refreshed |-> refreshCalls[t] > 0])
  /\ UNCHANGED <<machine, call>>

NextRepeat ==
  \/ \E t \in Threads, o \in Ops : StartSeq(t, o)
  \/ \E t \in Threads : Step(t, RepeatServer)
  \/ \E t \in Threads : Observe(t)
  \/ Tick

SpecRepeat == InitRepeat /\ [][NextRepeat]_vars

\* A server whose answers are well formed: any status, and with a 200 a
\* complete body that validates.
WellFormedServer ==
  [statuses |-> Statuses, refresh |-> ConcRefreshBodies,
   login |-> ConcLoginBodies, rest |-> {TRUE}, plain |-> PlainBodies]

\* Sequential use against a well-formed server.
NextWellFormed ==
  \/ \E t \in Threads, o \in Ops : StartSeq(t, o)
  \/ \E t \in Threads : Step(t, WellFormedServer)
  \/ Tick

SpecWellFormed == Init /\ [][NextWellFormed]_vars

\* ================================================================= claims

\* Caller t's _refresh_access_token has just ended (returned or raised) and
\* nothing of its operation has run since.
RefreshEnded(t) ==
  /\ refreshResult[t] # "none"
  /\ sent[t] = 0
  /\ \/ pc[t] \in {"req_send", "logout_clear_access"}
     \/ pc[t] = "done" /\ op[t] # "logout"

\* Caller u has written some but not all of the credential fields its
\* refresh, login or logout writes.
MidWrite(u) ==
  pc[u] \in {"refresh_set_expiry", "login_set_refresh", "login_set_expiry",
             "logout_clear_refresh", "logout_clear_expiry"}

\* C1: whenever a dispatch evaluates the refresh check, the answer is true
\* exactly if auto_refresh is on, a refresh token is held (not None, not
\* empty), an expiry is recorded and now >= expiry - 5 minutes; with the first
\* three given and expiry = now + t, exactly if t <= 300 seconds.
C1_NeedsRefreshIff ==
  [][\A t \in Threads :
       (pc[t] = "req_check" /\ pc'[t] # "req_check") =>
         /\ needed'[t] <=>
              (/\ auto_refresh
               /\ Truthy(refresh_token)
               /\ ~IsNone(token_expires_at)
               /\ now >= token_expires_at[1] - 5 * 60)
         /\ (auto_refresh /\ Truthy(refresh_token) /\ ~IsNone(token_expires_at)) =>
              (needed'[t] <=> token_expires_at[1] - now <= 300)]_vars

\* C1 witness: a check answered true with exactly 300 seconds left.
C1_Witness ==
  \E t \in Threads :
    /\ pc[t] = "refresh_entry"
    /\ op[t] \in Dispatching
    /\ needed[t]
    /\ ~IsNone(token_expires_at)
    /\ token_expires_at[1] - now = 300

\* C2: in a dispatch whose refresh check was true, the request goes to the
\* transport only after a refresh call that succeeded; if the refresh failed
\* the request is never sent and the caller receives the refresh's failure.
C2_RefreshBeforeRequest ==
  \A t \in Threads :
    (op[t] \in Dispatching /\ needed[t]) =>
      /\ sent[t] > 0 => (refreshCalls[t] = 1 /\ refreshResult[t] = "ok")
      /\ refreshResult[t] \notin {"none", "ok"} => sent[t] = 0
      /\ (refreshResult[t] \notin {"none", "ok"} /\ pc[t] = "done") =>
           result[t] = refreshResult[t]

\* C2 witness: a get whose pre-flight refresh call was rejected has ended with
\* that failure and without sending its request.
C2_Witness ==
  \E t \in Threads :
    /\ op[t] = "get"
    /\ needed[t]
    /\ pc[t] = "done"
    /\ refreshCalls[t] = 1
    /\ refreshResult[t] = "Authentication"
    /\ result[t] = "Authentication"
    /\ sent[t] = 0

\* C3: a refresh answered with a non-2xx status fails, and access_token and
\* the expiry are what they were before it.
C3_RefreshFailureKeepsState ==
  \A t \in Threads :
    (RefreshEnded(t) /\ rstatus[t] # 0 /\ rstatus[t] \notin 200..299) =>
      /\ refreshResult[t] # "ok"
      /\ access_token = pre[t][1]
      /\ token_expires_at = pre[t][3]

\* C3 witness: a refresh answered 401 has ended, with an expiry on record.
C3_Witness ==
  \E t \in Threads :
    /\ RefreshEnded(t)
    /\ rstatus[t] = 401
    /\ refreshResult[t] = "Authentication"
    /\ ~IsNone(access_token)
    /\ ~IsNone(token_expires_at)

\* C4: after a refresh attempt the session holds the old access_token with the
\* old expiry, or the returned access_token with the expiry computed from the
\* response; never one of each.
C4_RefreshNeverMixed ==
  \A t \in Threads :
    RefreshEnded(t) =>
      \/ access_token = pre[t][1] /\ token_expires_at = pre[t][3]
      \/ /\ ~IsNone(rdata[t].access_token)
         /\ access_token = rdata[t].access_token
         /\ TimedeltaOk(ExpiresInOrDefault(rdata[t]))
         /\ token_expires_at = Some(setAt[t] + ExpiresInOrDefault(rdata[t])[2])

\* C5: when logout is over, however it ended, the three credential fields are
\* cleared.
C5_LogoutAlwaysClears ==
  \A t \in Threads :
    (op[t] = "logout" /\ pc[t] = "done") =>
      (IsNone(access_token) /\ IsNone(refresh_token) /\ IsNone(token_expires_at))

\* C5 witness: a logout begun with all three fields set has ended with a
\* transport error.
C5_Witness ==
  \E t \in Threads :
    /\ op[t] = "logout"
    /\ pc[t] = "done"
    /\ result[t] = "Network"
    /\ ~IsNone(pre[t][1]) /\ ~IsNone(pre[t][2]) /\ ~IsNone(pre[t][3])

\* C6: when login is over, the three credential fields are all as before the
\* call or all taken from the login response.
C6_LoginAtomic ==
  \A t \in Threads :
    (op[t] = "login" /\ pc[t] = "done") =>
      \/ session = pre[t]
      \/ /\ ~IsNone(data[t].access_token)
         /\ ~IsNone(data[t].refresh_token)
         /\ TimedeltaOk(ExpiresInOrDefault(data[t]))
         /\ session = <<data[t].access_token, data[t].refresh_token,
                        Some(setAt[t] + ExpiresInOrDefault(data[t])[2])>>

\* C7: every failure an operation ends with is one of the taxonomy kinds.
C7_OnlyTaxonomyKinds ==
  \A t \in Threads :
    (pc[t] = "done" /\ result[t] # "ok") => result[t] \in TaxonomyKinds

\* C8: two dispatches that run at the same time never both have a refresh
\* call in flight for the same expiry.
C8_OneRefreshPerExpiry ==
  \A t, u \in Threads :
    (/\ t # u
     /\ op[t] \in Dispatching /\ op[u] \in Dispatching
     /\ pc[t] = "refresh_wait" /\ pc[u] = "refresh_wait")
      => seenExpiry[t] # seenExpiry[u]

\* C9: no caller runs the refresh check or builds its headers while another
\* caller has written only part of the credential fields.
C9_NoTornRead ==
  [][\A t \in Threads :
       (pc[t] \in {"req_check", "req_send"} /\ pc'[t] # pc[t]) =>
         \A u \in Threads \ {t} : ~MidWrite(u)]_vars

\* C10 as claimed: a dispatch begun right after a login that returned, with
\* the clock where the login left it, issues no refresh call.
C10_NoRefreshAfterLogin ==
  \A t \in Threads :
    (/\ op[t] \in Dispatching
     /\ pc[t] # "idle"
     /\ ~IsNone(last)
     /\ now = last[1].at)
      => refreshCalls[t] = 0

\* C10 as amended: the same, for a login response whose expires_in is more
\* than 300 seconds.
C10_NoRefreshAfterLongLivedLogin ==
  \A t \in Threads :
    (/\ op[t] \in Dispatching
     /\ pc[t] # "idle"
     /\ ~IsNone(last)
     /\ now = last[1].at
     /\ last[1].expires_in[2] > 300)
      => refreshCalls[t] = 0

\* C10 witness: right after a login answered with expires_in = 301, with
\* auto_refresh on and a refresh token held, a get has passed its refresh
\* check and is about to send.
C10_Witness ==
  \E t \in Threads :
    /\ op[t] = "get"
    /\ pc[t] = "req_send"
    /\ ~IsNone(last)
    /\ now = last[1].at
    /\ last[1].expires_in = <<"int", 301>>
    /\ auto_refresh
    /\ Truthy(refresh_token)
    /\ ~needed[t]
    /\ refreshCalls[t] = 0

\* C11: the headers built for a request always carry Content-Type and
\* Accept application/json; X-API-Key is there exactly when an API key is
\* configured, Authorization: Bearer <access_token> exactly when no API key
\* is configured and an access token is present, X-Tenant-ID exactly when a
\* tenant id is set; X-API-Key and Authorization never go together, and
\* with neither credential there is no authentication header.
C11_Headers ==
  Applied("_get_headers") =>
    LET h == ret[1]
        hasKey == call.api_key \notin {None, Some("")}
        hasToken == call.token \notin {None, Some("")}
        hasTenant == call.tenant_id \notin {None, Some("")}
    IN /\ h.ContentType = "application/json"
       /\ h.Accept = "application/json"
       /\ IF hasKey THEN h.XAPIKey = call.api_key ELSE IsNone(h.XAPIKey)
       /\ IF ~hasKey /\ hasToken
            THEN h.Authorization = Some(<<"Bearer", call.token[1]>>)
            ELSE IsNone(h.Authorization)
       /\ IF hasTenant THEN h.XTenantID = call.tenant_id ELSE IsNone(h.XTenantID)
       /\ IsNone(h.XAPIKey) \/ IsNone(h.Authorization)
       /\ (~hasKey /\ ~hasToken) => IsNone(h.XAPIKey) /\ IsNone(h.Authorization)

\* Headers were built for a client holding both an API key and an access
\* token: the API key went out, the bearer token did not.
C11_Witness ==
  /\ Applied("_get_headers")
  /\ call.api_key = Some("k1")
  /\ call.token = Some("a0")
  /\ ret[1].XAPIKey = Some("k1")
  /\ IsNone(ret[1].Authorization)

\* C12: the mapping from status to error kind is total and deterministic:
\* every status >= 400 yields exactly one kind of the taxonomy, 400
\* Validation, 401 Authentication, 403 Authorization, 404 NotFound, 409
\* Conflict, 429 RateLimit, 500 and above Server, anything else Generic,
\* whatever the body; applying the mapping changes no session state.
C12_StatusToKind ==
  [][(call.fn = "raise_for_status" /\ IsNone(ret) /\ ~IsNone(ret')) =>
       LET table == [s \in {400, 401, 403, 404, 409, 429} |->
                       CASE s = 400 -> "Validation"
                         [] s = 401 -> "Authentication"
                         [] s = 403 -> "Authorization"
                         [] s = 404 -> "NotFound"
                         [] s = 409 -> "Conflict"
                         [] s = 429 -> "RateLimit"]
           expected == IF call.status \in DOMAIN table THEN table[call.status]
                       ELSE IF call.status > 499 THEN "Server"
                       ELSE "Generic"
       IN /\ ret'[1].kind = expected
          /\ ret'[1].kind \in TaxonomyKinds
          /\ session' = session
          /\ auto_refresh' = auto_refresh]_vars

\* A 503 whose body does not decode was mapped to a Server error.
C12_Witness ==
  /\ Applied("raise_for_status")
  /\ call.status = 503
  /\ ~call.resp.json
  /\ ret[1].kind = "Server"

\* C13: a transport failure that is a timeout is raised as a Timeout error
\* carrying the client's configured timeout; any other connectivity failure
\* is raised as a Network error carrying the description of the underlying
\* error; a timeout is never classified as Network.
C13_TransportErrors ==
  Applied("transport") =>
    LET e == ret[1]
        timedOut == call.exc \in {"ConnectTimeout", "ReadTimeout",
                                  "WriteTimeout", "PoolTimeout"}
    IN /\ timedOut => /\ e.kind = "Timeout"
                      /\ e.timeout = Some(call.timeout)
       /\ ~timedOut => /\ e.kind = "Network"
                       /\ e.details_original_error = Some(<<"str", call.exc>>)
                       /\ e.original_error = Some(call.exc)

\* A read timeout of a client configured with 5 seconds became a Timeout
\* error that carries the 5.
C13_Witness ==
  /\ Applied("transport")
  /\ call.exc = "ReadTimeout"
  /\ call.timeout = 5
  /\ ret[1].kind = "Timeout"
  /\ ret[1].timeout = Some(5)

\* C14: nothing is retried: one dispatch hands its request to the transport
\* at most once and issues at most one refresh call, whatever the outcome;
\* a request that failed is not sent again after a refresh.
C14_NothingRetried ==
  \A t \in Threads :
    /\ sent[t] <= 1
    /\ refreshCalls[t] <= 1
    /\ (pc[t] = "done" /\ op[t] \in Dispatching /\ respStatus[t] # 0) => sent[t] = 1

\* A get refreshed first, was then answered 401, and ended there: one
\* refresh call, one request.
C14_Witness ==
  \E t \in Threads :
    /\ pc[t] = "done"
    /\ op[t] = "get"
    /\ refreshResult[t] = "ok"
    /\ refreshCalls[t] = 1
    /\ respStatus[t] = 401
    /\ result[t] = "Authentication"
    /\ sent[t] = 1

\* C15 as stated: a refresh call fails with Authentication when the response
\* is non-2xx and succeeds for every 2xx response; on success access_token is
\* the returned one, the expiry is now + expires_in (now + 3600 when
\* omitted) and refresh_token is unchanged.
C15_RefreshOn2xx ==
  \A t \in Threads :
    (RefreshEnded(t) /\ rstatus[t] # 0) =>
      IF rstatus[t] \notin 200..299
        THEN refreshResult[t] = "Authentication"
        ELSE /\ refreshResult[t] = "ok"
             /\ access_token = rdata[t].access_token
             /\ token_expires_at =
                  Some(setAt[t] + (IF IsNone(rdata[t].expires_in) THEN 3600
                                   ELSE rdata[t].expires_in[2]))
             /\ refresh_token = pre[t][2]

\* C15, amended: a refresh call fails with Authentication, the session as it
\* was, whenever the status of the response is not 200; it succeeds for every
\* 200 response whose body is a JSON object with an access_token and with
\* expires_in a number or absent, and then access_token is the returned
\* one, the expiry is now + expires_in (now + 3600 when omitted) and
\* refresh_token is unchanged.
C15_RefreshOn200 ==
  \A t \in Threads :
    (RefreshEnded(t) /\ rstatus[t] # 0) =>
      /\ rstatus[t] # 200 =>
           /\ refreshResult[t] = "Authentication"
           /\ session = pre[t]
      /\ ( /\ rstatus[t] = 200
           /\ rdata[t].json
           /\ ~IsNone(rdata[t].access_token)
           /\ rdata[t].expires_in = None \/ rdata[t].expires_in[1] = "int" ) =>
           /\ refreshResult[t] = "ok"
           /\ access_token = rdata[t].access_token
           /\ token_expires_at =
                Some(setAt[t] + (IF IsNone(rdata[t].expires_in) THEN 3600
                                 ELSE rdata[t].expires_in[2]))
           /\ refresh_token = pre[t][2]

\* An explicit refresh answered 200 without expires_in has succeeded, after
\* the clock had moved: the expiry is 3600 seconds from the time of the call.
C15_Witness ==
  \E t \in Threads :
    /\ RefreshEnded(t)
    /\ op[t] = "refresh"
    /\ rstatus[t] = 200
    /\ refreshResult[t] = "ok"
    /\ IsNone(rdata[t].expires_in)
    /\ setAt[t] > 0
    /\ token_expires_at = Some(setAt[t] + 3600)
    /\ access_token = rdata[t].access_token
    /\ access_token # pre[t][1]

\* C16: a refresh asked for while no refresh_token is held (None or empty)
\* fails with Authentication, without any call to the server and with
\* access_token and the expiry as they were.
C16_RefreshWithoutToken ==
  \A t \in Threads :
    (op[t] = "refresh" /\ pc[t] = "done" /\ pre[t][2] \in {None, Some("")}) =>
      /\ result[t] = "Authentication"
      /\ refreshCalls[t] = 0
      /\ rstatus[t] = 0
      /\ access_token = pre[t][1]
      /\ token_expires_at = pre[t][3]

\* A session that a login left with an access token, an expiry and an empty
\* refresh_token was asked to refresh, and the refresh failed on the spot.
C16_Witness ==
  \E t \in Threads :
    /\ op[t] = "refresh"
    /\ pc[t] = "done"
    /\ pre[t][2] = Some("")
    /\ ~IsNone(token_expires_at)
    /\ ~IsNone(access_token)
    /\ result[t] = "Authentication"
    /\ refreshCalls[t] = 0

\* C17: a logout whose request the server answers with a 2xx status returns
\* without error, whatever the body of the response, an empty one included.
C17_LogoutIgnoresBody ==
  \A t \in Threads :
    (op[t] = "logout" /\ pc[t] = "done" /\ respStatus[t] \in 200..299) =>
      result[t] = "ok"

\* C18: a 404 response without a body, or with a body that is not valid
\* JSON, is raised as a NotFound error whose message is the default message
\* of that error, not text taken from the body.
C18_NotFoundDefaultMessage ==
  (Applied("raise_for_status") /\ call.status = 404 /\ ~call.resp.json) =>
    /\ ret[1].kind = "NotFound"
    /\ ret[1].message = "Resource not found"

\* C19: the paginated result a list operation returns has the page and
\* per_page the caller asked for (1 and 20 when left out), whatever page and
\* per_page the reply carries, and the total and total_pages of the reply,
\* total_pages being 1 when the reply has none.
C19_RequestedNotEchoed ==
  (Applied("list") /\ ret[1].kind = "PaginatedResponse") =>
    LET r == ret[1]
    IN /\ r.page = (IF call.page = None THEN 1 ELSE call.page[1])
       /\ r.per_page = (IF call.per_page = None THEN 20 ELSE call.per_page[1])
       /\ call.reply.total # None => r.total = call.reply.total[2]
       /\ r.total_pages = (IF call.reply.total_pages = None THEN 1
                           ELSE call.reply.total_pages[2])

\* Page 2 in tens was asked for, the reply spoke of page 7 in 25s and had no
\* total_pages: the result is page 2 in tens, of 1 page.
C19_Witness ==
  /\ Applied("list")
  /\ call.page = Some(2)
  /\ call.per_page = Some(10)
  /\ call.reply.page = <<"int", 7>>
  /\ call.reply.per_page = <<"int", 25>>
  /\ call.reply.total_pages = None
  /\ ret[1].kind = "PaginatedResponse"
  /\ ret[1].page = 2
  /\ ret[1].per_page = 10
  /\ ret[1].total_pages = 1

\* C20: every paginated result a list operation returns has page >= 1,
\* per_page >= 1 and total_pages >= 1, whatever page and per_page the caller
\* passes and whatever total_pages the server returns.
C20_PaginationBounds ==
  (Applied("list") /\ ret[1].kind = "PaginatedResponse") =>
    /\ ret[1].page >= 1
    /\ ret[1].per_page >= 1
    /\ ret[1].total_pages >= 1

\* C21: access_token, refresh_token and the expiry change only in the code
\* of login, of refresh (asked for, or run by a dispatch before its request)
\* and of logout; sending a request and receiving its outcome, a 401
\* included, beginning and ending an operation and the passing of time
\* leave them as they are; base_url, api_key, tenant_id, auto_refresh and
\* timeout never change.
C21_CredentialFrame ==
  [][/\ session' # session =>
          \E t \in Threads :
            /\ pc[t] # pc'[t]
            /\ \/ pc[t] \in {"refresh_wait", "refresh_set_expiry"}
               \/ op[t] = "login" /\ pc[t] \in {"login_set_access", "login_set_refresh",
                                                "login_set_expiry"}
               \/ op[t] = "logout" /\ pc[t] \in {"logout_clear_access",
                                                 "logout_clear_refresh",
                                                 "logout_clear_expiry"}
     /\ config' = config
     /\ auto_refresh' = auto_refresh]_vars

\* A get of a session with tokens and an expiry, sent without a refresh, was
\* answered 401 and has ended: the session is as it was before the get.
C21_Witness ==
  \E t \in Threads :
    /\ pc[t] = "done"
    /\ op[t] = "get"
    /\ refreshCalls[t] = 0
    /\ respStatus[t] = 401
    /\ result[t] = "Authentication"
    /\ Truthy(access_token)
    /\ Truthy(refresh_token)
    /\ ~IsNone(token_expires_at)
    /\ session = pre[t]

\* C22: error_code and status of a classified error follow the table: for
\* 401, 403 and 409 the error_code is the code of the body when it has one
\* (a non-empty one) and else AUTHENTICATION_ERROR, AUTHORIZATION_ERROR and
\* CONFLICT; for a status of 500 or more the code of the body is carried
\* when it has one and the status is that of the response; for any other
\* status the table does not list, the Generic error carries the status of
\* the response and the code of the body as it is.
C22_CodeAndStatus ==
  Applied("raise_for_status") =>
    LET e == ret[1]
        code == IF call.resp.json THEN call.resp.code ELSE None
        hasCode == code \notin {None, Some("")}
        byDefault == [s \in {401, 403, 409} |->
                        CASE s = 401 -> "AUTHENTICATION_ERROR"
                          [] s = 403 -> "AUTHORIZATION_ERROR"
                          [] s = 409 -> "CONFLICT"]
    IN /\ call.status \in {401, 403, 409} =>
            /\ e.status_code = call.status
            /\ e.error_code = (IF hasCode THEN code ELSE Some(byDefault[call.status]))
       /\ call.status >= 500 =>
            /\ e.status_code = call.status
            /\ hasCode => e.error_code = code
       /\ call.status \notin {400, 401, 403, 404, 409, 429} /\ call.status < 500 =>
            /\ e.kind = "Generic"
            /\ e.status_code = call.status
            /\ e.error_code = code

\* A 503 whose body has the code E42 became an error of status 503 and
\* error_code E42.
C22_Witness ==
  /\ Applied("raise_for_status")
  /\ call.status = 503
  /\ call.resp.code = Some("E42")
  /\ ret[1].status_code = 503
  /\ ret[1].error_code = Some("E42")

\* C23: a 429 whose body has retry_after = n is raised as a RateLimit error
\* whose retry_after is n, and with no retry_after when the body has none; a
\* 400 whose body has a (non-empty) errors field is raised as a Validation
\* error whose details.validation_errors is that field.
C23_StatusExtras ==
  Applied("raise_for_status") =>
    LET e == ret[1]
        r == call.resp
    IN /\ call.status = 429 =>
            /\ e.kind = "RateLimit"
            /\ e.retry_after = (IF r.json THEN r.retry_after ELSE None)
       /\ (call.status = 400 /\ r.json /\ r.errors \notin {None, Some("")}) =>
            /\ e.kind = "Validation"
            /\ e.validation_errors = r.errors

\* A 429 with retry_after 7 became a RateLimit error with retry_after 7.
C23_Witness ==
  /\ Applied("raise_for_status")
  /\ call.status = 429
  /\ call.resp.retry_after = Some(7)
  /\ ret[1].kind = "RateLimit"
  /\ ret[1].retry_after = Some(7)

\* C24: when the transport call of a get or delete completes, the dispatch
\* raises an error of the taxonomy exactly if the status of the response is
\* 400 or more; for every status below 400 it returns (the decoded body for
\* get, nothing for delete) and raises nothing.
C24_TypedErrorIffStatus ==
  \A t \in Threads :
    (pc[t] = "done" /\ op[t] \in Methods /\ respStatus[t] # 0) =>
      /\ result[t] \in TaxonomyKinds <=> respStatus[t] >= 400
      /\ respStatus[t] < 400 => result[t] = "ok"

\* C27: when the body of a response of status 400 or more does not decode
\* as JSON, the error raised has the raw text of the response as its
\* message, and its kind is the one the status alone selects.
C27_RawTextMessage ==
  (Applied("raise_for_status") /\ ~call.resp.json) =>
    LET s == call.status
        kind == CASE s = 400 -> "Validation"
                  [] s = 401 -> "Authentication"
                  [] s = 403 -> "Authorization"
                  [] s = 404 -> "NotFound"
                  [] s = 409 -> "Conflict"
                  [] s = 429 -> "RateLimit"
                  [] s >= 500 -> "Server"
                  [] OTHER -> "Generic"
    IN /\ ret[1].message = call.resp.text
       /\ ret[1].kind = kind

\* A 502 with an HTML body became a Server error whose message is that body.
C27_Witness ==
  /\ Applied("raise_for_status")
  /\ call.status = 502
  /\ ~call.resp.json
  /\ call.resp.text = "<html>"
  /\ ret[1].kind = "Server"
  /\ ret[1].message = "<html>"

\* C25: for every paginated result, has_next is true exactly if page <
\* total_pages and has_prev exactly if page > 1; page 2 in tens answered
\* with total 18 and total_pages 2 gives page 2, per_page 10, total 18,
\* total_pages 2, has_next false and has_prev true.
C25_HasNextHasPrev ==
  (Applied("list") /\ ret[1].kind = "PaginatedResponse") =>
    LET r == ret[1]
    IN /\ r.has_next <=> r.page < r.total_pages
       /\ r.has_prev <=> r.page > 1
       /\ ( /\ call.page = Some(2)
            /\ call.per_page = Some(10)
            /\ call.reply.total = <<"int", 18>>
            /\ call.reply.total_pages = <<"int", 2>> ) =>
            /\ r.page = 2
            /\ r.per_page = 10
            /\ r.total = 18
            /\ r.total_pages = 2
            /\ ~r.has_next
            /\ r.has_prev

\* The list of page 2 in tens, answered with total 18 and total_pages 2,
\* has returned a last page that has a previous one.
C25_Witness ==
  /\ Applied("list")
  /\ call.page = Some(2)
  /\ call.per_page = Some(10)
  /\ call.reply.total = <<"int", 18>>
  /\ call.reply.total_pages = <<"int", 2>>
  /\ ret[1].kind = "PaginatedResponse"
  /\ ~ret[1].has_next
  /\ ret[1].has_prev

C28_LoginThroughDispatch ==
  \A t \in Threads :
    op[t] = "login" =>
      /\ (needed[t] /\ sent[t] > 0) => refreshCalls[t] = 1 /\ refreshResult[t] = "ok"
      /\ (pc[t] = "done" /\ refreshResult[t] \notin {"none", "ok"}) =>
           /\ sent[t] = 0
           /\ result[t] = "Authentication"
           /\ session = pre[t]
      /\ (phase = "logged_out" /\ pre[t] = <<None, None, None>>) =>
           refreshCalls[t] = 0

\* C29: from the end of a logout until a login succeeds, no request goes out
\* with an Authorization: Bearer header and no dispatch issues a refresh
\* call, whatever operations come in between.
C29_NoBearerAfterLogout ==
  [][\A t \in Threads :
       phase = "logged_out" =>
         /\ (pc[t] = "req_send" /\ pc'[t] = "req_wait") =>
              IsNone(GetHeaders(api_key, access_token, tenant_id).Authorization)
         /\ ~(op[t] \in Dispatching /\ pc[t] = "refresh_entry"
                /\ pc'[t] = "refresh_wait")]_vars

\* C30: against a server with well-formed responses, in every state between
\* the writes of an operation a recorded expiry comes with a refresh_token
\* and an access_token held; and as long as no login has succeeded, a
\* client constructed with at most an access token has no expiry and issues
\* no refresh call.
C30_ExpiryImpliesTokens ==
  [][/\ ((\A u \in Threads : ~MidWrite(u)) /\ ~IsNone(token_expires_at)) =>
          /\ refresh_token \notin {None, Some("")}
          /\ access_token \notin {None, Some("")}
     /\ ((\A u \in Threads : ~MidWrite(u)') /\ ~IsNone(token_expires_at')) =>
          /\ refresh_token' \notin {None, Some("")}
          /\ access_token' \notin {None, Some("")}
     /\ phase # "logged_in" =>
          /\ IsNone(token_expires_at)
          /\ \A t \in Threads : refreshCalls'[t] <= refreshCalls[t]]_vars

\* After a login and a refresh, with no operation running, the session has
\* the refreshed access token, the refresh token and an expiry.
C30_Witness ==
  /\ \A u \in Threads : pc[u] = "idle"
  /\ phase = "logged_in"
  /\ access_token = Some("a2")
  /\ refresh_token = Some("r1")
  /\ ~IsNone(token_expires_at)

\* C31: when request has refreshed the token successfully before sending and
\* its own request then failed (timeout, network failure, or a response with
\* a status of 400 or more), request ends with an error, and the session still
\* holds the access token and the expiry that the refresh wrote, and the
\* refresh token it had: the refresh is not undone.  For get, delete and login
\* that is the state the caller is left with; for logout it is the state in
\* which request hands the error to logout, before logout's finally block
\* clears the session.  The witness shows a failed get ending with a session
\* that differs from the one it started with.
C31_RefreshNotRolledBack ==
  \A t \in Threads :
    ( /\ \/ pc[t] = "done" /\ op[t] \in Methods \cup {"login"}
         \/ pc[t] = "logout_clear_access" /\ op[t] = "logout"
      /\ refreshResult[t] = "ok"
      /\ sent[t] = 1
      /\ \/ result[t] \in {"Timeout", "Network"}
         \/ respStatus[t] >= 400 ) =>
      /\ result[t] \in TaxonomyKinds
      /\ result[t] \notin {"ok", "none"}
      /\ access_token = rdata[t].access_token
      /\ token_expires_at = Some(setAt[t] + ExpiresInOrDefault(rdata[t])[2])
      /\ refresh_token = pre[t][2]

C31_Witness ==
  /\ pc["t1"] = "done"
  /\ op["t1"] = "get"
  /\ refreshResult["t1"] = "ok"
  /\ refreshCalls["t1"] = 1
  /\ sent["t1"] = 1
  /\ respStatus["t1"] = 503
  /\ result["t1"] = "Server"
  /\ access_token # pre["t1"][1]
  /\ token_expires_at # pre["t1"][3]
  /\ session # pre["t1"]

====
